---- MODULE Spec2Model ----
(***************************************************************************)
(* rusty-map: an open-addressing hash table with linear probing and a      *)
(* resize-before-insert policy (src/main.rs).                              *)
(*                                                                         *)
(* The table is modelled with i64 keys (Hashable for i64: wrapping_abs)    *)
(* and integer values.  Slot indices are 0-based as in the source, so the  *)
(* slot array `entries` is a function over 0 .. len-1.                     *)
(*                                                                         *)
(* The hashes of the other key types (text, char, bool, the integers, f32  *)
(* and f64) are modelled on their own: SpecHash applies the text hash to   *)
(* byte strings, SpecKeyHash applies each hash and == to pairs of keys.    *)
(***************************************************************************)
EXTENDS Integers, Sequences, FiniteSets

\* ------------------------------------------------------------------ bounds
\* The keys of the model are 0 (the Default key), 1, MaxKey and -MaxKey.  The
\* last two are distinct keys with the same hash (wrapping_abs), and in a
\* table of MaxKey + 1 slots they both probe from the last slot.
MaxKey == 3
\* Values range over 0 .. MaxValue (0 is the Default value).
MaxValue == 1
\* with_capacity(c) is called with c in 0 .. MaxInitCap.
MaxInitCap == 4
\* The text hash is applied to the byte strings of length 0 .. MaxStrLen.
MaxStrLen == 3
\* The width of usize in bits.  Rust's usize is 16, 32 or 64 bits wide; the
\* model takes the narrowest so that every sum stays a small integer.
WordBits == 16
\* The floating-point keys are binary floats in the IEEE 754 layout (sign,
\* biased exponent, fraction) with FloatExpBits exponent bits and
\* FloatFracBits fraction bits for f32 and one exponent bit more for f64,
\* scaled down like usize so that, as for f32 on a 32- or 64-bit target and
\* f64 on a 64-bit target, all the bits of a float fit in usize.
FloatExpBits == 2
FloatFracBits == 1

\* ------------------------------------------------------- program constants
INITIAL_CAPACITY == 64
DJB2_SEED == 5381
DJB2_SHIFT == 5

Keys == {-MaxKey, 0, 1, MaxKey}
Values == 0 .. MaxValue
\* The bytes of the strings hashed: the ASCII letters K, j and k (every
\* sequence of ASCII bytes is valid UTF-8).
Bytes == {75, 106, 107}

VARIABLES
  map,        \* the HashMap: [entries, occupied]
  cursor,     \* the HashMapIterator borrowed from map: [alive, current_index]
  yielded,    \* history: the items the live cursor has returned so far
  shadow,     \* history: for each key, the value of its last completed insert
  lastOp,     \* the last call made and what it returned
  text,       \* the bytes of the text key handed to the text hash
  overflow_checks,  \* the build: TRUE with overflow checks (debug), FALSE without
  key_pair    \* the type of two keys handed to hash and ==, and the two keys

vars == <<map, cursor, yielded, shadow, lastOp, text, overflow_checks, key_pair>>

\* ------------------------------------------------------------ Option<T>
Some(x) == <<"Some", x>>
None == <<"None">>
\* A call that panics (the thread unwinds out of the call).
Panic == <<"Panic">>

\* ---------------------------------------------------------------- Entry
DefaultKey == 0
DefaultValue == 0
\* #[derive(Default)] for Entry: occupied = false, key and value default.
DefaultEntry == [occupied |-> FALSE, key |-> DefaultKey, value |-> DefaultValue]

\* Vec::len of a slot array.
vec_len(es) == Cardinality(DOMAIN es)

\* ------------------------------------------------------------- Hashable
\* impl Hashable for i64: self.wrapping_abs() as usize.  (i64::MIN, whose
\* wrapping_abs is itself, lies outside Keys.)
hash(key) == IF key < 0 THEN -key ELSE key

\* usize arithmetic.  `<<` drops the bits shifted out; wrapping_add wraps;
\* `+` panics on overflow in a build with overflow checks and wraps in a
\* build without.
WordSize == 2 ^ WordBits

shl(x, n) == (x * 2 ^ n) % WordSize

wrapping_add(x, y) == (x + y) % WordSize

add(x, y, checks) ==
  IF x + y >= WordSize /\ checks THEN Panic ELSE Some((x + y) % WordSize)

\* The loop of the text hash (djb2), from byte i of `bytes` on:
\* hash = (hash << 5).wrapping_add(hash) + byte as usize.
RECURSIVE djb2_loop(_, _, _, _)
djb2_loop(bytes, i, h, checks) ==
  IF i > Len(bytes) THEN Some(h)
  ELSE LET r == add(wrapping_add(shl(h, DJB2_SHIFT), h), bytes[i], checks)
       IN  IF r = Panic THEN Panic ELSE djb2_loop(bytes, i + 1, r[2], checks)

\* impl Hashable for String
hash_String(bytes, checks) == djb2_loop(bytes, 1, DJB2_SEED, checks)

\* impl Hashable for &str
hash_str(bytes, checks) == djb2_loop(bytes, 1, DJB2_SEED, checks)

\* ---------------------------------------------------------- constructors
with_capacity(capacity) ==
  [entries |-> [i \in 0 .. capacity - 1 |-> DefaultEntry], occupied |-> 0]

new == with_capacity(INITIAL_CAPACITY)

empty == [entries |-> <<>>, occupied |-> 0]

\* -------------------------------------------------------------- queries
capacity(m) == vec_len(m.entries)

len(m) == m.occupied

is_empty(m) == m.occupied = 0

\* ------------------------------------------------------------ get_index
\* Mutant: the probe stops at the last slot instead of wrapping to slot 0.
RECURSIVE get_index_loop_nowrap(_, _, _, _)
get_index_loop_nowrap(es, key, index, n) ==
  IF n = 0 THEN index
  ELSE IF ~es[index].occupied THEN index
  ELSE IF es[index].key = key THEN index
  ELSE IF index + 1 = vec_len(es) THEN index
  ELSE get_index_loop_nowrap(es, key, index + 1, n - 1)

\* Mutant: the lookup looks at the home slot only.
get_index_loop_home(es, key, index, n) == index

\* The probe loop of get_index: `n` iterations are left; the value is the
\* index at which the loop is left (by a break or by running out).
RECURSIVE get_index_loop(_, _, _, _)
get_index_loop(es, key, index, n) ==
  IF n = 0 THEN index
  ELSE IF ~es[index].occupied THEN index
  ELSE IF es[index].key = key THEN index
  ELSE get_index_loop(es, key, (index + 1) % vec_len(es), n - 1)

\* Mutant: the test after the loop compares the key alone.
slot_matches_key_only(es, index, key) == es[index].key = key

\* The test after the loop: the slot holds the key.
slot_matches(es, index, key) ==
  es[index].occupied /\ es[index].key = key

\* Mutant: a table without slots reports every key absent.
get_index_guarded(m, key) ==
  IF vec_len(m.entries) = 0 THEN None
  ELSE LET index == get_index_loop(m.entries, key,
                                   hash(key) % vec_len(m.entries), vec_len(m.entries))
       IN  IF slot_matches(m.entries, index, key) THEN Some(index) ELSE None

\* `key.hash() % self.entries.len()` panics when len is 0 (remainder by zero).
get_index(m, key) ==
  IF vec_len(m.entries) = 0 THEN Panic
  ELSE LET index == get_index_loop(m.entries, key,
                                   hash(key) % vec_len(m.entries), vec_len(m.entries))
       IN  IF slot_matches(m.entries, index, key) THEN Some(index) ELSE None

\* Some(&entries[index].value)
get(m, key) ==
  LET r == get_index(m, key)
  IN  IF r = Panic THEN Panic
      ELSE IF r = None THEN None
      ELSE Some(m.entries[r[2]].value)

\* Some(&mut entries[index].value): the reference is modelled by the index of
\* the slot whose value it points to.
get_mut(m, key) ==
  LET r == get_index(m, key)
  IN  IF r = Panic THEN Panic
      ELSE IF r = None THEN None
      ELSE Some(r[2])

\* --------------------------------------------------------------- insert
\* Mutant: an insert of a present key keeps the old value.
overwrite_skip(m, index, new_value) == m

\* Mutant: an overwrite is counted as a new binding.
overwrite_counts(m, index, new_value) ==
  [m EXCEPT !.entries[index].value = new_value, !.occupied = @ + 1]

\* `*old = new_value`
overwrite(m, index, new_value) ==
  [m EXCEPT !.entries[index].value = new_value]

\* Mutant: the resize test is strict.
needs_extend_gt(m) == m.occupied > vec_len(m.entries) \div 2

\* Mutant: insert never resizes.
needs_extend_never(m) == FALSE

\* Mutant: the resize test waits until every slot is occupied.
needs_extend_full(m) == m.occupied >= vec_len(m.entries)

\* The resize test of insert.
needs_extend(m) == m.occupied >= vec_len(m.entries) \div 2

\* Mutant: the placement forgets `self.occupied += 1`.
place_no_count(m, index, key, new_value) ==
  [entries  |-> [m.entries EXCEPT ![index] =
                   [occupied |-> TRUE, key |-> key, value |-> new_value]],
   occupied |-> m.occupied]

\* Mutant: the binding is stored one slot after the free slot found.
place_off_by_one(m, index, key, new_value) ==
  [entries  |-> [m.entries EXCEPT ![(index + 1) % vec_len(m.entries)] =
                   [occupied |-> TRUE, key |-> key, value |-> new_value]],
   occupied |-> m.occupied + 1]

\* The body of the placement loop when the slot is free.
place(m, index, key, new_value) ==
  [entries  |-> [m.entries EXCEPT ![index] =
                   [occupied |-> TRUE, key |-> key, value |-> new_value]],
   occupied |-> m.occupied + 1]

\* Mutant: the binding is stored in the key's home slot, occupied or not.
insert_loop_clobber(m, key, new_value, index, n) ==
  [m |-> place(m, index, key, new_value), outcome |-> "Placed"]

\* The placement loop of insert: `n` iterations are left.  When the loop runs
\* out without finding a free slot the binding is not stored.
RECURSIVE insert_loop(_, _, _, _, _)
insert_loop(m, key, new_value, index, n) ==
  IF n = 0 THEN [m |-> m, outcome |-> "Dropped"]
  ELSE IF ~m.entries[index].occupied
       THEN [m |-> place(m, index, key, new_value), outcome |-> "Placed"]
       ELSE insert_loop(m, key, new_value, (index + 1) % vec_len(m.entries), n - 1)

\* Mutant: the new table has twice the slots, without the extra one.
new_capacity_double(old_len) == old_len * 2

\* The capacity of the table extend allocates.
\* Mutant: the new table has one slot more than the old one.
new_capacity_plus_one(old_len) == old_len + 1

new_capacity(old_len) == old_len * 2 + 1

RECURSIVE insert(_, _, _)
RECURSIVE extend_loop(_, _, _)

\* Mutant: extend copies the slots to the same indices of the larger table
\* instead of re-inserting them.
extend_raw_copy(m) ==
  [entries  |-> [i \in 0 .. new_capacity(vec_len(m.entries)) - 1 |->
                   IF i < vec_len(m.entries) THEN m.entries[i] ELSE DefaultEntry],
   occupied |-> m.occupied]

\* extend: re-insert every occupied entry, in slot order, into a new table.
\* (The new table has at least one slot, so the nested inserts do not panic.)
extend(m) ==
  extend_loop(m, with_capacity(new_capacity(vec_len(m.entries))), 0)

extend_loop(old, new_self, i) ==
  IF i >= vec_len(old.entries) THEN new_self
  ELSE extend_loop(old,
                   IF old.entries[i].occupied
                   THEN insert(new_self, old.entries[i].key, old.entries[i].value).m
                   ELSE new_self,
                   i + 1)

\* Mutant: insert tests for the resize before it looks the key up.
insert_resize_first(m, key, new_value) ==
  LET ext == needs_extend(m)
      m1  == IF ext THEN extend(m) ELSE m
      old == get_mut(m1, key)
  IN  IF old = Panic
      THEN [m |-> m, outcome |-> "Panic", extended |-> FALSE]
      ELSE IF old # None
      THEN [m |-> overwrite(m1, old[2], new_value),
            outcome |-> "Overwritten", extended |-> ext]
      ELSE LET r == insert_loop(m1, key, new_value,
                                hash(key) % vec_len(m1.entries), vec_len(m1.entries))
           IN  [m |-> r.m, outcome |-> r.outcome, extended |-> ext]

\* insert: the resulting table, how the call ended ("Panic", "Overwritten",
\* "Placed", "Dropped") and whether it called extend.
insert(m, key, new_value) ==
  LET old == get_mut(m, key)
  IN  IF old = Panic
      THEN [m |-> m, outcome |-> "Panic", extended |-> FALSE]
      ELSE IF old # None
      THEN [m |-> overwrite(m, old[2], new_value),
            outcome |-> "Overwritten", extended |-> FALSE]
      ELSE LET ext == needs_extend(m)
               m1  == IF ext THEN extend(m) ELSE m
               r   == insert_loop(m1, key, new_value,
                                  hash(key) % vec_len(m1.entries), vec_len(m1.entries))
           IN  [m |-> r.m, outcome |-> r.outcome, extended |-> ext]

\* ------------------------------------------------------ HashMapIterator
\* iter(): a cursor at index 0 borrowing the table's slot array.
iter == [alive |-> TRUE, current_index |-> 0]

NoCursor == [alive |-> FALSE, current_index |-> 0]

\* Mutant: next yields every slot, occupied or not.
iter_next_all(es, current_index) ==
  IF current_index < vec_len(es)
  THEN [item |-> Some(<<es[current_index].key, es[current_index].value>>),
        current_index |-> current_index + 1]
  ELSE [item |-> None, current_index |-> current_index]

\* Mutant: next reports the end at the first unoccupied slot it meets.
iter_next_stops(es, current_index) ==
  IF current_index < vec_len(es)
  THEN IF es[current_index].occupied
       THEN [item |-> Some(<<es[current_index].key, es[current_index].value>>),
             current_index |-> current_index + 1]
       ELSE [item |-> None, current_index |-> current_index + 1]
  ELSE [item |-> None, current_index |-> current_index]

\* HashMapIterator::next: the item returned and the new current_index.
RECURSIVE iter_next(_, _)
iter_next(es, current_index) ==
  IF current_index < vec_len(es)
  THEN LET entry == es[current_index]
       IN  IF entry.occupied
           THEN [item |-> Some(<<entry.key, entry.value>>),
                 current_index |-> current_index + 1]
           ELSE iter_next(es, current_index + 1)
  ELSE [item |-> None, current_index |-> current_index]

\* ------------------------------------------------------------- the calls
\* The record of a call: its name, its arguments and what it returned.  For
\* an insert, `extended` tells whether it called extend and `old` is what
\* get(key) returned just before the call.
Op(op, key, value, result, extended) ==
  [op |-> op, key |-> key, value |-> value, result |-> result,
   extended |-> extended, old |-> None]

NoShadow == [k \in Keys |-> None]

\* No pair of keys is being compared.
NoKeys == [type |-> "none", a |-> 0, b |-> 0]

Construct(name, m) ==
  /\ map = m
  /\ cursor = NoCursor
  /\ yielded = <<>>
  /\ shadow = NoShadow
  /\ lastOp = Op(name, 0, 0, <<"Ok">>, FALSE)
  /\ text = <<>>
  /\ overflow_checks = TRUE
  /\ key_pair = NoKeys

Init ==
  \/ Construct("new", new)
  \/ Construct("empty", empty)
  \/ \E c \in 0 .. MaxInitCap : Construct("with_capacity", with_capacity(c))

\* A scan is modelled without other calls in between: insert and get_mut take
\* &mut self and cannot be called while a cursor borrows the map, and the
\* calls that take &self change neither the map nor the cursor.
Insert(key, new_value) ==
  /\ ~cursor.alive
  /\ LET r == insert(map, key, new_value)
     IN  /\ map' = r.m
         /\ shadow' = IF r.outcome = "Panic" THEN shadow
                      ELSE [shadow EXCEPT ![key] = Some(new_value)]
         /\ lastOp' = [Op("insert", key, new_value, <<r.outcome>>, r.extended)
                          EXCEPT !.old = get(map, key)]
  /\ UNCHANGED <<cursor, yielded, text, overflow_checks, key_pair>>

GetIndex(key) ==
  /\ ~cursor.alive
  /\ lastOp' = Op("get_index", key, 0, get_index(map, key), FALSE)
  /\ UNCHANGED <<map, cursor, yielded, shadow, text, overflow_checks, key_pair>>

Get(key) ==
  /\ ~cursor.alive
  /\ lastOp' = Op("get", key, 0, get(map, key), FALSE)
  /\ UNCHANGED <<map, cursor, yielded, shadow, text, overflow_checks, key_pair>>

GetMut(key) ==
  /\ ~cursor.alive
  /\ lastOp' = Op("get_mut", key, 0, get_mut(map, key), FALSE)
  /\ UNCHANGED <<map, cursor, yielded, shadow, text, overflow_checks, key_pair>>

CallLen ==
  /\ ~cursor.alive
  /\ lastOp' = Op("len", 0, 0, Some(len(map)), FALSE)
  /\ UNCHANGED <<map, cursor, yielded, shadow, text, overflow_checks, key_pair>>

CallIsEmpty ==
  /\ ~cursor.alive
  /\ lastOp' = Op("is_empty", 0, 0, Some(is_empty(map)), FALSE)
  /\ UNCHANGED <<map, cursor, yielded, shadow, text, overflow_checks, key_pair>>

CallCapacity ==
  /\ ~cursor.alive
  /\ lastOp' = Op("capacity", 0, 0, Some(capacity(map)), FALSE)
  /\ UNCHANGED <<map, cursor, yielded, shadow, text, overflow_checks, key_pair>>

Iter ==
  /\ ~cursor.alive
  /\ cursor' = iter
  /\ yielded' = <<>>
  /\ lastOp' = Op("iter", 0, 0, <<"Ok">>, FALSE)
  /\ UNCHANGED <<map, shadow, text, overflow_checks, key_pair>>

IterNext ==
  /\ cursor.alive
  /\ LET r == iter_next(map.entries, cursor.current_index)
     IN  /\ cursor' = [cursor EXCEPT !.current_index = r.current_index]
         /\ yielded' = IF r.item = None THEN yielded
                       ELSE Append(yielded, r.item[2])
         /\ lastOp' = Op("next", 0, 0, r.item, FALSE)
  /\ UNCHANGED <<map, shadow, text, overflow_checks, key_pair>>

\* The cursor goes out of scope: the borrow of the map ends.
IterDrop ==
  /\ cursor.alive
  /\ cursor' = NoCursor
  /\ yielded' = <<>>
  /\ lastOp' = Op("drop", 0, 0, <<"Ok">>, FALSE)
  /\ UNCHANGED <<map, shadow, text, overflow_checks, key_pair>>

Next ==
  \/ \E key \in Keys, new_value \in Values : Insert(key, new_value)
  \/ \E key \in Keys : GetIndex(key)
  \/ \E key \in Keys : Get(key)
  \/ \E key \in Keys : GetMut(key)
  \/ CallLen
  \/ CallIsEmpty
  \/ CallCapacity
  \/ Iter
  \/ IterNext
  \/ IterDrop

Spec == Init /\ [][Next]_vars

\* ------------------------------------------------- the text hash, alone
\* A text key is hashed on its own: the string and the build are drawn at the
\* start, and each call applies one of the two text implementations.
Texts == UNION {[1 .. n -> Bytes] : n \in 0 .. MaxStrLen}

InitHash ==
  /\ map = empty
  /\ cursor = NoCursor
  /\ yielded = <<>>
  /\ shadow = NoShadow
  /\ lastOp = Op("none", 0, 0, None, FALSE)
  /\ text \in Texts
  /\ overflow_checks \in BOOLEAN
  /\ key_pair = NoKeys

HashString ==
  /\ lastOp' = Op("String::hash", 0, 0, hash_String(text, overflow_checks), FALSE)
  /\ UNCHANGED <<map, cursor, yielded, shadow, text, overflow_checks, key_pair>>

HashStr ==
  /\ lastOp' = Op("str::hash", 0, 0, hash_str(text, overflow_checks), FALSE)
  /\ UNCHANGED <<map, cursor, yielded, shadow, text, overflow_checks, key_pair>>

NextHash ==
  \/ HashString
  \/ HashStr

SpecHash == InitHash /\ [][NextHash]_vars

\* --------------------------------------- Hashable for the other key types
\* `x as usize` for an integer x: the value modulo 2^WordBits (truncation
\* of a wider type, sign extension of a negative value).
as_usize(x) == x % WordSize

\* impl Hashable for bool.
hash_bool(self) == IF self THEN 1 ELSE 0

\* impl Hashable for char and for the integer types but i64: *self as usize.
hash_char(self) == as_usize(self)
hash_i8(self) == as_usize(self)
hash_u8(self) == as_usize(self)
hash_i16(self) == as_usize(self)
hash_u16(self) == as_usize(self)
hash_i32(self) == as_usize(self)
hash_u32(self) == as_usize(self)
hash_u64(self) == as_usize(self)
hash_i128(self) == as_usize(self)
hash_u128(self) == as_usize(self)
hash_isize(self) == as_usize(self)
\* impl Hashable for usize: *self.
hash_usize(self) == self

\* The floats with e exponent bits and f fraction bits.  Exponent 0 and
\* fraction 0 is a zero of either sign; the largest exponent is an infinity
\* when the fraction is 0 and a NaN otherwise.
Floats(e, f) == [sign : 0 .. 1, exp : 0 .. 2 ^ e - 1, frac : 0 .. 2 ^ f - 1]

\* f32::to_bits / f64::to_bits: sign, exponent and fraction, high to low.
to_bits(x, e, f) == x.sign * 2 ^ (e + f) + x.exp * 2 ^ f + x.frac

is_nan(x, e) == x.exp = 2 ^ e - 1 /\ x.frac # 0

is_zero(x) == x.exp = 0 /\ x.frac = 0

\* PartialEq for f32 / f64 (IEEE 754): a NaN is equal to nothing, the two
\* zeros are equal, any other two floats are equal when their bits are.
float_eq(a, b, e) ==
  /\ ~is_nan(a, e)
  /\ ~is_nan(b, e)
  /\ \/ is_zero(a) /\ is_zero(b)
     \/ a = b

\* impl Hashable for f32 and f64: self.to_bits() as usize.
hash_f32(self) == as_usize(to_bits(self, FloatExpBits, FloatFracBits))
hash_f64(self) == as_usize(to_bits(self, FloatExpBits + 1, FloatFracBits))

KeyTypes ==
  {"String", "str", "char", "i8", "u8", "i16", "u16", "i32", "u32", "i64",
   "u64", "i128", "u128", "isize", "usize", "f32", "f64", "bool"}

SignedTypes == {"i8", "i16", "i32", "i64", "i128", "isize"}
UnsignedTypes == {"u8", "u16", "u32", "u64", "u128", "usize"}
TextTypes == {"String", "str"}

\* The keys of each type that the hashes are applied to.
KeyValues(t) ==
  CASE t \in TextTypes -> UNION {[1 .. n -> Bytes] : n \in 0 .. MaxStrLen - 1}
    [] t = "char" -> Bytes
    [] t \in SignedTypes -> -MaxKey .. MaxKey
    [] t \in UnsignedTypes -> 0 .. MaxKey
    [] t = "f32" -> Floats(FloatExpBits, FloatFracBits)
    [] t = "f64" -> Floats(FloatExpBits + 1, FloatFracBits)
    [] t = "bool" -> BOOLEAN

\* key.hash() for a key of type t.
hash_of(t, key, checks) ==
  CASE t = "String" -> hash_String(key, checks)
    [] t = "str" -> hash_str(key, checks)
    [] t = "char" -> hash_char(key)
    [] t = "i8" -> hash_i8(key)
    [] t = "u8" -> hash_u8(key)
    [] t = "i16" -> hash_i16(key)
    [] t = "u16" -> hash_u16(key)
    [] t = "i32" -> hash_i32(key)
    [] t = "u32" -> hash_u32(key)
    [] t = "i64" -> hash(key)
    [] t = "u64" -> hash_u64(key)
    [] t = "i128" -> hash_i128(key)
    [] t = "u128" -> hash_u128(key)
    [] t = "isize" -> hash_isize(key)
    [] t = "usize" -> hash_usize(key)
    [] t = "f32" -> hash_f32(key)
    [] t = "f64" -> hash_f64(key)
    [] t = "bool" -> hash_bool(key)

\* entry.key == *key for keys of type t.
key_eq(t, a, b) ==
  CASE t = "f32" -> float_eq(a, b, FloatExpBits)
    [] t = "f64" -> float_eq(a, b, FloatExpBits + 1)
    [] OTHER -> a = b

InitKeyHash ==
  /\ map = empty
  /\ cursor = NoCursor
  /\ yielded = <<>>
  /\ shadow = NoShadow
  /\ lastOp = Op("none", 0, 0, None, FALSE)
  /\ text = <<>>
  /\ \E t \in KeyTypes :
       /\ overflow_checks \in (IF t \in TextTypes THEN BOOLEAN ELSE {TRUE})
       /\ \E a, b \in KeyValues(t) : key_pair = [type |-> t, a |-> a, b |-> b]

\* What get_index works with for a stored key a and a looked-up key b: the
\* hash of each and whether they compare equal.
HashKeys ==
  /\ lastOp' = Op("hash", 0, 0,
                  [eq |-> key_eq(key_pair.type, key_pair.a, key_pair.b),
                   h1 |-> hash_of(key_pair.type, key_pair.a, overflow_checks),
                   h2 |-> hash_of(key_pair.type, key_pair.b, overflow_checks)],
                  FALSE)
  /\ UNCHANGED <<map, cursor, yielded, shadow, text, overflow_checks, key_pair>>

NextKeyHash == HashKeys

SpecKeyHash == InitKeyHash /\ [][NextKeyHash]_vars

\* =============================================================== claims
\* The slots of m whose occupied flag is set.
OccupiedSlots(m) == {i \in DOMAIN m.entries : m.entries[i].occupied}

\* The keys some insert has stored.
Inserted == {k \in Keys : shadow[k] # None}

\* C1 (round trip): on a table with at least one slot, right after
\* insert(k, v) returns, get(k) yields v -- whether k was absent or present
\* and whether or not the insert resized.
C1_RoundTrip ==
  (capacity(map) # 0 /\ lastOp.op = "insert")
    => get(map, lastOp.key) = Some(lastOp.value)

\* An insert of an absent key that resized a table already holding two
\* bindings, and the new binding is read back.
C1_Witness ==
  /\ lastOp.op = "insert"
  /\ lastOp.extended
  /\ lastOp.old = None
  /\ map.occupied = 3
  /\ get(map, lastOp.key) = Some(lastOp.value)

\* C2 (contents preserved across resizes): on a table with at least one
\* slot, every key ever inserted is found by get with the value of the most
\* recent insert for that key, after any sequence of inserts and resizes.
C2_ContentsPreserved ==
  capacity(map) # 0 =>
    \A k \in Keys : shadow[k] # None => get(map, k) = shadow[k]

\* All four keys are stored, the last insert resized the table, and a key
\* inserted before that resize is still found with its value.
C2_Witness ==
  /\ Inserted = Keys
  /\ lastOp.op = "insert"
  /\ lastOp.extended
  /\ \E k \in Keys \ {lastOp.key} : get(map, k) = shadow[k] /\ shadow[k] # None

\* C3 (overwrite): an insert of a key that is present, with a value different
\* from the stored one, leaves len() unchanged, and get of that key then
\* returns the new value.
C3_Overwrite ==
  [][(/\ lastOp'.op = "insert"
      /\ get(map, lastOp'.key) \notin {None, Panic}
      /\ get(map, lastOp'.key) # Some(lastOp'.value))
       => (/\ len(map') = len(map)
           /\ get(map', lastOp'.key) = Some(lastOp'.value))]_vars

\* An insert has just overwritten a different value.
C3_Witness ==
  /\ lastOp.op = "insert"
  /\ lastOp.result = <<"Overwritten">>
  /\ lastOp.old \notin {None, Some(lastOp.value)}
  /\ get(map, lastOp.key) = Some(lastOp.value)


\* C4 (load factor bound): on a table with at least one slot, after inserts
\* of N distinct keys, len() = N and capacity() >= 2N; twice the occupied
\* count never exceeds the slot count once an insert has returned.
C4_LoadFactorBound ==
  capacity(map) # 0 =>
    /\ len(map) = Cardinality(Inserted)
    /\ capacity(map) >= 2 * Cardinality(Inserted)
    /\ 2 * map.occupied <= vec_len(map.entries)

\* The bound is met with equality: two keys in a table of four slots, the
\* second placed by an insert that did not resize.
C4_Witness ==
  /\ lastOp.op = "insert"
  /\ lastOp.result = <<"Placed">>
  /\ ~lastOp.extended
  /\ Cardinality(Inserted) = 2
  /\ capacity(map) = 4

\* C5 (absence): on a table with at least one slot, get, get_mut and
\* get_index report absent for every key never inserted; on a fresh table
\* this includes the Default key that fills the unoccupied slots.
C5_Absence ==
  capacity(map) # 0 =>
    \A k \in Keys :
      shadow[k] = None =>
        /\ get(map, k) = None
        /\ get_mut(map, k) = None
        /\ get_index(map, k) = None

\* get(Default key) has just reported absent on a table that holds other
\* keys, all of its other slots still holding the Default key.
C5_Witness ==
  /\ lastOp.op = "get"
  /\ lastOp.key = DefaultKey
  /\ lastOp.result = None
  /\ map.occupied = 2
  /\ \E i \in DOMAIN map.entries :
        ~map.entries[i].occupied /\ map.entries[i].key = DefaultKey

\* C6 (iteration completeness): during a scan every pair yielded so far is
\* what get returns for its key and no key is yielded twice; when next
\* reports the end, exactly as many pairs were yielded as slots are occupied.
C6_IterationComplete ==
  cursor.alive =>
    /\ \A i \in 1 .. Len(yielded) :
         get(map, yielded[i][1]) = Some(yielded[i][2])
    /\ \A i, j \in 1 .. Len(yielded) :
         i # j => yielded[i][1] # yielded[j][1]
    /\ (lastOp.op = "next" /\ lastOp.result = None)
         => Len(yielded) = Cardinality(OccupiedSlots(map))

\* A scan of a table holding all four keys has reached the end.
C6_Witness ==
  /\ cursor.alive
  /\ lastOp.op = "next"
  /\ lastOp.result = None
  /\ Len(yielded) = 4
  /\ Cardinality(OccupiedSlots(map)) = 4

\* C7 (zero capacity): on a table without slots every get, get_mut,
\* get_index and insert panics and leaves the table as it was (no slots,
\* len 0), while len, is_empty, capacity and iteration succeed.
C7_ZeroCapacityFatal ==
  [][capacity(map) = 0 =>
       /\ map' = map
       /\ len(map') = 0
       /\ lastOp'.op \in {"get", "get_mut", "get_index", "insert"}
            => lastOp'.result = Panic
       /\ lastOp'.op = "len" => lastOp'.result = Some(0)
       /\ lastOp'.op = "is_empty" => lastOp'.result = Some(TRUE)
       /\ lastOp'.op = "capacity" => lastOp'.result = Some(0)
       /\ lastOp'.op = "iter" => cursor'.alive
       /\ lastOp'.op = "next" => lastOp'.result = None]_vars

\* An insert has just panicked on a table built by empty().
C7_Witness ==
  /\ capacity(map) = 0
  /\ map = empty
  /\ lastOp.op = "insert"
  /\ lastOp.result = Panic

\* No occupied slot of m holds the key.
KeyAbsent(m, key) ==
  \A i \in OccupiedSlots(m) : m.entries[i].key # key

\* C8 as stated (resize policy): an insert changes the slot count if and only
\* if the key is absent and occupied >= floor(slot count / 2) at the time of
\* the call, and then to exactly old * 2 + 1; no other call changes it and it
\* never decreases.
C8_ResizePolicyAsStated ==
  [][/\ (capacity(map') # capacity(map))
          <=> (/\ lastOp'.op = "insert"
               /\ KeyAbsent(map, lastOp'.key)
               /\ map.occupied >= capacity(map) \div 2)
     /\ capacity(map') # capacity(map)
          => capacity(map') = capacity(map) * 2 + 1
     /\ capacity(map') >= capacity(map)]_vars

\* C8 amended: the same, for an insert that does not panic; an insert that
\* panics (as every insert on a table without slots does) changes nothing.
C8_ResizePolicy ==
  [][/\ (capacity(map') # capacity(map))
          <=> (/\ lastOp'.op = "insert"
               /\ lastOp'.result # Panic
               /\ KeyAbsent(map, lastOp'.key)
               /\ map.occupied >= capacity(map) \div 2)
     /\ capacity(map') # capacity(map)
          => capacity(map') = capacity(map) * 2 + 1
     /\ capacity(map') >= capacity(map)]_vars

\* An insert of an absent key has just resized a table of four slots, holding
\* two keys, to nine slots.
C8_Witness ==
  /\ lastOp.op = "insert"
  /\ lastOp.extended
  /\ lastOp.result = <<"Placed">>
  /\ capacity(map) = 9
  /\ map.occupied = 3

\* The text hash as the claim defines it: h := 5381, then for each byte b
\* h := ((h << 5) + h + b) mod 2^w.
RECURSIVE Djb2Wrapping(_, _, _)
Djb2Wrapping(bytes, i, h) ==
  IF i > Len(bytes) THEN h
  ELSE Djb2Wrapping(bytes, i + 1, (h * 2 ^ DJB2_SHIFT + h + bytes[i]) % WordSize)

\* C9 (text hash is total and wraps): for every byte string, in every build,
\* the String and &str hashes return the wrapping djb2 value and never fail.
C9_TextHashWraps ==
  lastOp.op \in {"String::hash", "str::hash"}
    => lastOp.result = Some(Djb2Wrapping(text, 1, DJB2_SEED))

\* C10 (occupied count): the stored count that len() returns is the number
\* of slots whose occupied flag is set, and is_empty() holds exactly when no
\* slot is occupied.
C10_OccupiedCount ==
  /\ len(map) = Cardinality(OccupiedSlots(map))
  /\ is_empty(map) <=> OccupiedSlots(map) = {}

\* len() has just returned 4 on a table with four occupied slots, reached
\* through at least one resize.
C10_Witness ==
  /\ lastOp.op = "len"
  /\ lastOp.result = Some(4)
  /\ Cardinality(OccupiedSlots(map)) = 4
  /\ capacity(map) = 15

\* The slot a probe for the key starts at.
Home(m, key) == hash(key) % vec_len(m.entries)

\* The slots on the cyclic forward path from slot `from` up to, and
\* excluding, slot `to`.
PathBefore(m, from, to) ==
  {(from + d) % vec_len(m.entries) :
     d \in 0 .. ((to - from + vec_len(m.entries)) % vec_len(m.entries)) - 1}

\* C11 (lookup is exact): on a table with at least one slot, get_index(k) is
\* Some(i) exactly for the occupied slots i that hold k, and None exactly when
\* no occupied slot holds k: the wraparound probe never misses a stored key.
C11_LookupExact ==
  capacity(map) # 0 =>
    \A k \in Keys :
      /\ \A i \in DOMAIN map.entries :
           get_index(map, k) = Some(i)
             <=> (map.entries[i].occupied /\ map.entries[i].key = k)
      /\ get_index(map, k) = None <=> KeyAbsent(map, k)

\* get_index has just found a key in a slot before its home slot, that is,
\* after the probe wrapped around the end of the slot array.
C11_Witness ==
  /\ lastOp.op = "get_index"
  /\ lastOp.result # None
  /\ lastOp.result # Panic
  /\ lastOp.result[2] < Home(map, lastOp.key)

\* C12 (probe-sequence invariant): for every occupied slot i holding key k,
\* every slot on the cyclic path from k's home slot up to i, i excluded, is
\* occupied and holds another key.
C12_ProbeSequence ==
  \A i \in OccupiedSlots(map) :
    \A j \in PathBefore(map, Home(map, map.entries[i].key), i) :
      /\ map.entries[j].occupied
      /\ map.entries[j].key # map.entries[i].key

\* An insert has just stored a key in slot 0 because its home slot, the last
\* one, holds another key with the same hash.
C12_Witness ==
  /\ lastOp.op = "insert"
  /\ lastOp.result = <<"Placed">>
  /\ map.entries[0].occupied
  /\ map.entries[0].key = lastOp.key
  /\ PathBefore(map, Home(map, lastOp.key), 0) = {capacity(map) - 1}

\* C13 (no silent drop): on a table with at least one slot, when an insert of
\* an absent key reaches its placement loop an unoccupied slot exists, the
\* loop stores the key and value in a slot that was unoccupied, and len()
\* grows by exactly one.
C13_NeverDropped ==
  [][(/\ lastOp'.op = "insert"
      /\ capacity(map) # 0
      /\ KeyAbsent(map, lastOp'.key))
       => LET m1 == IF needs_extend(map) THEN extend(map) ELSE map
          IN  /\ OccupiedSlots(m1) # DOMAIN m1.entries
              /\ lastOp'.result = <<"Placed">>
              /\ len(map') = len(map) + 1
              /\ \E i \in DOMAIN m1.entries :
                    /\ ~m1.entries[i].occupied
                    /\ map'.entries[i] = [occupied |-> TRUE,
                                          key |-> lastOp'.key,
                                          value |-> lastOp'.value]]_vars

\* An insert that did not resize has just stored its key away from the
\* key's home slot: the placement loop stepped over an occupied slot.
C13_Witness ==
  /\ lastOp.op = "insert"
  /\ lastOp.result = <<"Placed">>
  /\ ~lastOp.extended
  /\ map.entries[Home(map, lastOp.key)].key # lastOp.key
  /\ get(map, lastOp.key) = Some(lastOp.value)

\* C14 as stated (load factor strictly below one half): whenever an insert
\* has returned on a table with at least one slot, 2 * occupied < slot count.
C14_LoadFactorBelowHalf ==
  (lastOp.op = "insert" /\ capacity(map) # 0)
    => 2 * len(map) < capacity(map)

\* C14 amended: whenever an insert has returned on a table with at least one
\* slot, 2 * occupied <= slot count, and strictly less when that insert
\* resized the table.
C14_LoadFactorAtMostHalf ==
  (lastOp.op = "insert" /\ capacity(map) # 0)
    => /\ 2 * len(map) <= capacity(map)
       /\ lastOp.extended => 2 * len(map) < capacity(map)

\* An insert that did not resize has just brought a table of two slots to
\* one occupied slot: exactly one half.
C14_Witness ==
  /\ lastOp.op = "insert"
  /\ lastOp.result = <<"Placed">>
  /\ ~lastOp.extended
  /\ capacity(map) = 2
  /\ len(map) = 1

\* C15 (occupancy is monotonic between resizes): a call that does not resize
\* keeps the slot array's size and leaves every occupied slot occupied with
\* the same key; an insert of an absent key that does not resize changes
\* exactly one slot, from unoccupied to occupied.
C15_OccupancyMonotonic ==
  [][~(lastOp'.op = "insert" /\ lastOp'.extended)
       => /\ DOMAIN map'.entries = DOMAIN map.entries
          /\ \A i \in OccupiedSlots(map) :
               /\ map'.entries[i].occupied
               /\ map'.entries[i].key = map.entries[i].key
          /\ (/\ lastOp'.op = "insert"
              /\ lastOp'.result # Panic
              /\ KeyAbsent(map, lastOp'.key))
               => \E i \in DOMAIN map.entries :
                    /\ ~map.entries[i].occupied
                    /\ map'.entries[i].occupied
                    /\ \A j \in DOMAIN map.entries \ {i} :
                         map'.entries[j] = map.entries[j]]_vars

\* An insert that did not resize has just added a third key to the table.
C15_Witness ==
  /\ lastOp.op = "insert"
  /\ lastOp.result = <<"Placed">>
  /\ ~lastOp.extended
  /\ Cardinality(OccupiedSlots(map)) = 3

\* C16 (overwrite frame): an insert of a key that is present changes the
\* value in that key's slot and nothing else: it does not resize, even when
\* occupied >= floor(capacity / 2), and the slot count, the occupied count,
\* every slot's flag and key and every other value stay as they were.
C16_OverwriteFrame ==
  [][(lastOp'.op = "insert" /\ ~KeyAbsent(map, lastOp'.key))
       => /\ ~lastOp'.extended
          /\ \E i \in OccupiedSlots(map) :
               /\ map.entries[i].key = lastOp'.key
               /\ map' = [map EXCEPT !.entries[i].value = lastOp'.value]]_vars

\* An insert has just overwritten a different value in a table that is at
\* its resize threshold.
C16_Witness ==
  /\ lastOp.op = "insert"
  /\ lastOp.result = <<"Overwritten">>
  /\ lastOp.old # Some(lastOp.value)
  /\ needs_extend(map)
  /\ ~lastOp.extended

\* C17 (cursor order): a new cursor starts at slot 0.  A call of next that
\* yields a binding yields the one in the first occupied slot at or after the
\* cursor's index, passes only unoccupied slots on the way and leaves the
\* index just behind that slot, so the yields come in strictly increasing
\* slot order.  A call that reports the end has found every remaining slot
\* unoccupied, leaves the index at the slot count, never beyond it, and the
\* next call reports the end again.  On a table without slots the first call
\* reports the end.
C17_CursorOrder ==
  [][/\ lastOp'.op = "iter" => cursor'.current_index = 0
     /\ (cursor.alive /\ lastOp'.op = "next")
          => LET from == cursor.current_index
                 to   == cursor'.current_index
             IN  /\ from <= to
                 /\ to <= capacity(map)
                 /\ capacity(map) = 0 => lastOp'.result = None
                 /\ IF lastOp'.result = None
                    THEN /\ to = capacity(map)
                         /\ \A i \in from .. to - 1 : ~map.entries[i].occupied
                         /\ iter_next(map'.entries, to).item = None
                         /\ iter_next(map'.entries, to).current_index = to
                    ELSE /\ to > from
                         /\ map.entries[to - 1].occupied
                         /\ lastOp'.result = Some(<<map.entries[to - 1].key,
                                                    map.entries[to - 1].value>>)
                         /\ \A i \in from .. to - 2 : ~map.entries[i].occupied]_vars

\* A scan has reported the end after yielding at least two bindings with an
\* unoccupied slot between them and an unoccupied slot at the end.
C17_Witness ==
  /\ cursor.alive
  /\ lastOp.op = "next"
  /\ lastOp.result = None
  /\ Len(yielded) >= 2
  /\ cursor.current_index = capacity(map)
  /\ ~map.entries[capacity(map) - 1].occupied
  /\ \E i, j, k \in DOMAIN map.entries :
       /\ i < j /\ j < k
       /\ map.entries[i].occupied
       /\ ~map.entries[j].occupied
       /\ map.entries[k].occupied

\* The re-inserts of extend, replayed from slot i of the old table on: each
\* one meets a table in which its key is absent and which is below the
\* resize threshold, and ends by placing the binding.
RECURSIVE ReinsertsClean(_, _, _)
ReinsertsClean(old, new_self, i) ==
  IF i >= vec_len(old.entries) THEN TRUE
  ELSE IF ~old.entries[i].occupied THEN ReinsertsClean(old, new_self, i + 1)
  ELSE LET r == insert(new_self, old.entries[i].key, old.entries[i].value)
       IN  /\ KeyAbsent(new_self, old.entries[i].key)
           /\ ~needs_extend(new_self)
           /\ r.outcome = "Placed"
           /\ ~r.extended
           /\ ReinsertsClean(old, r.m, i + 1)

\* C18 (a resize never nests, one resize is enough): on every insert step
\* that resizes a table of c slots, no re-insert of extend resizes again or
\* finds its key present, the table extend returns has 2c+1 slots, the same
\* number of bindings and occupied < floor((2c+1) / 2), and the pending key
\* is placed in that table of exactly 2c+1 slots.
C18_ResizeNeverNests ==
  [][(lastOp'.op = "insert" /\ lastOp'.extended)
       => LET c == capacity(map)
          IN  /\ ReinsertsClean(map, with_capacity(2 * c + 1), 0)
              /\ capacity(extend(map)) = 2 * c + 1
              /\ len(extend(map)) = len(map)
              /\ len(extend(map)) < (2 * c + 1) \div 2
              /\ lastOp'.result = <<"Placed">>
              /\ capacity(map') = 2 * c + 1
              /\ len(map') = len(map) + 1]_vars

\* An insert has just resized a table of four slots holding two bindings and
\* placed the third key in the table of nine slots.
C18_Witness ==
  /\ lastOp.op = "insert"
  /\ lastOp.extended
  /\ lastOp.result = <<"Placed">>
  /\ capacity(map) = 9
  /\ len(map) = 3

\* C19 (key uniqueness): no two distinct occupied slots hold equal keys.
C19_KeyUniqueness ==
  \A i, j \in OccupiedSlots(map) :
    map.entries[i].key = map.entries[j].key => i = j

\* After an overwrite in a table that has been resized and holds all four
\* keys, two of them colliding.
C19_Witness ==
  /\ lastOp.op = "insert"
  /\ lastOp.result = <<"Overwritten">>
  /\ capacity(map) > MaxInitCap
  /\ Cardinality(OccupiedSlots(map)) = 4
  /\ \E i, j \in OccupiedSlots(map) :
       /\ i # j
       /\ Home(map, map.entries[i].key) = Home(map, map.entries[j].key)

\* C20 (hashing is consistent with key equality): for every key type with a
\* provided hash, two keys that compare equal have the same hash.
C20_HashConsistent ==
  lastOp.op = "hash" =>
    (lastOp.result.eq => lastOp.result.h1 = lastOp.result.h2)
====
